---- MODULE Spec2Model ----
(***************************************************************************)
(* Model of the plugin runtime of src/nanopp/platform.py:                  *)
(*   PluginContainer  - the per-plugin lifecycle state machine             *)
(*   PluginManager    - the registry (plugins_by_ref / plugins_by_id)      *)
(*   Platform         - the bulk passes (start, activate_all_plugins,      *)
(*                      shutdown)                                          *)
(* of the version ranges of src/nanopp/plugins/support.py (RequiresEntry), *)
(* and of the DependenciesManager platform.py imports from                 *)
(* nanopp/dependencies.py, taken from section 4.3 of spec.md.              *)
(* The runtime is single-threaded: a bulk pass, once begun, runs to its    *)
(* end before any other operation is taken.                                *)
(***************************************************************************)
EXTENDS Integers, Sequences, FiniteSets, TLC

\* ------------------------------------------------------------------ bounds
\* Number of plugin references the discovery collaborator can return.
NumRefs == 3
\* Largest number of hook classes a manifest declares.
MaxClasses == 2
\* Cap on the number of times one container is installed.
MaxInstalls == 2
\* Number of plugin ids a DependenciesManager is given.
NumNodes == 3
\* Largest number of ids one plugin depends on.
MaxDependsOn == 1
\* Largest number of lines of a generated manifest descriptor.
MaxLines == 3

Refs == 1..NumRefs

\* ------------------------------------------------- Plugin.STATE_* constants
\* plugin_state before load() (PluginContainer.__init__ sets it to None).
STATE_NONE == "NONE"
STATE_UNINSTALLED == "UNINSTALLED"
STATE_INSTALLED == "INSTALLED"
STATE_ACTIVE == "ACTIVE"
STATE_DEACTIVATED == "DEACTIVATED"
STATE_DISPOSED == "DISPOSED"

\* plugin_hooks = None (after dispose()); hook instances are numbers >= 1.
NoneHooks == <<0>>

\* ---------------------------------------------------------------- manifests
\* The manifest the loader returns for a reference.  The last reference
\* resolves to the same plugin id as the first one (a re-registration).
ManifestId(r) == IF r = NumRefs /\ NumRefs > 1 THEN 1 ELSE r

\* manifest.plugin_classes: the hook classes, named 1..n in declaration order.
NumClasses(r) == 1 + (r % MaxClasses)

PluginClasses(r) == [i \in 1..NumClasses(r) |-> i]

\* manifest.requires_plugins, as the ids required (even references require
\* the plugin discovered just before them).
RequiresPlugins(r) == IF r % 2 = 0 THEN <<ManifestId(r - 1)>> ELSE <<>>

\* manifest.requires: required capabilities (every third reference has one).
Requires(r) == IF r % 3 = 0 THEN <<"cap">> ELSE <<>>

\* The hook classes any manifest declares.
Classes == 1..MaxClasses

VARIABLES
    container,      \* a PluginContainer driven directly by its caller
    plugins_by_ref, \* PluginManager.plugins_by_ref: reference -> its PluginContainer
    plugins_by_id,  \* PluginManager.plugins_by_id: insertion-ordered <<id, ref>> entries
    pc,             \* position of the Platform: "idle" or the bulk pass running
    todo,           \* the rest of the list the running pass iterates over
    passlog,        \* per plugin handled by the running pass: what happened
    last,           \* the last call made: operation, target, outcome, hook calls
    input,          \* the arguments of a RequiresEntry query, or the dependency graph
    output          \* the result of the query, or of get_install_order on the graph

\* The state of the runtime.
platformVars == <<container, plugins_by_ref, plugins_by_id, pc, todo, passlog, last>>

vars == <<container, plugins_by_ref, plugins_by_id, pc, todo, passlog, last,
          input, output>>

\* ------------------------------------------------------- PluginContainer
\* PluginContainer.__init__: nothing loaded, no hooks, no state.
NewContainer(r) == [ref |-> r, plugin_state |-> STATE_NONE, plugin_hooks |-> <<>>]

\* What a call returns: the container after it, the exception that reached
\* the caller ("ok" when none did) and the hook methods it invoked, in order.
Result(c, outcome, calls) == [c |-> c, outcome |-> outcome, calls |-> calls]

\* One invocation of a hook method: the hook's position in plugin_hooks, the
\* method, its argument, the plugin_state at the moment of the call and
\* whether the hook raised.
Call(i, method, arg, seen, raised) ==
    [hook |-> i, method |-> method, arg |-> arg, seen |-> seen, raised |-> raised]

\* A notification loop that an exception of a hook leaves.
notify_state_change_stopAtFirst(c, state, bad) ==
    LET at == {i \in 1..Len(c.plugin_hooks) : c.plugin_hooks[i] \in bad}
        n == IF at = {} THEN Len(c.plugin_hooks) ELSE CHOOSE i \in at : \A j \in at : i <= j
    IN [i \in 1..n |->
        Call(i, "on_state_change", state, c.plugin_state, c.plugin_hooks[i] \in bad)]

\* notify_state_change: on_state_change(state) on every hook; an exception of
\* one hook is logged and the loop goes on.  bad: the classes whose
\* on_state_change raises.
notify_state_change(c, state, bad) ==
    [i \in 1..Len(c.plugin_hooks) |->
        Call(i, "on_state_change", state, c.plugin_state, c.plugin_hooks[i] \in bad)]

\* A create_hooks that skips the class that cannot be loaded.
create_hooks_skipsFailed(c, failAt) ==
    LET classes == PluginClasses(c.ref)
        kept == SelectSeq(classes, LAMBDA k : k # failAt)
    IN [hooks |-> c.plugin_hooks \o kept, ok |-> TRUE]

\* create_hooks: appends one instance per hook class to plugin_hooks, in
\* declaration order; failAt > 0 is the first class that cannot be loaded or
\* instantiated, the exception leaving the instances appended before it.
create_hooks(c, failAt) ==
    LET classes == PluginClasses(c.ref)
        n == IF failAt = 0 THEN Len(classes) ELSE failAt - 1
    IN [hooks |-> c.plugin_hooks \o SubSeq(classes, 1, n), ok |-> failAt = 0]

\* A load() without its DISPOSED check.
load_unguarded(c) == Result([c EXCEPT !.plugin_state = STATE_UNINSTALLED], "ok", <<>>)

\* load(): only the DISPOSED check guards it.
load(c) ==
    IF c.plugin_state = STATE_DISPOSED
    THEN Result(c, "PluginLifecycleException", <<>>)
    ELSE Result([c EXCEPT !.plugin_state = STATE_UNINSTALLED], "ok", <<>>)

\* The state checks that open the lifecycle methods.
CanInstall(s) == s = STATE_UNINSTALLED

CanActivate(s) == s \in {STATE_INSTALLED, STATE_DEACTIVATED}

CanDeactivate(s) == s = STATE_ACTIVE

\* An uninstall() that also accepts an ACTIVE plugin.
CanUninstall_alsoActive(s) ==
    s \in {STATE_DEACTIVATED, STATE_INSTALLED, STATE_ACTIVE}

CanUninstall(s) == s \in {STATE_DEACTIVATED, STATE_INSTALLED}

CanDispose(s) == s = STATE_UNINSTALLED

\* install(): resolve_dependencies (a no-op), create_hooks, then INSTALLED and
\* the notification; any exception sets DISPOSED and is raised again.
install(c, failAt, badNotify) ==
    IF ~CanInstall(c.plugin_state)
    THEN Result(c, "PluginLifecycleException", <<>>)
    ELSE LET created == create_hooks(c, failAt)
             withHooks == [c EXCEPT !.plugin_hooks = created.hooks]
             installed == [withHooks EXCEPT !.plugin_state = STATE_INSTALLED]
         IN IF created.ok
            THEN Result(installed, "ok",
                        notify_state_change(installed, STATE_INSTALLED, badNotify))
            ELSE Result([withHooks EXCEPT !.plugin_state = STATE_DISPOSED],
                        "LoadError", <<>>)

\* Position of the first hook whose class is in bad; 0 when there is none.
FirstRaiser(hooks, bad) ==
    LET at == {i \in 1..Len(hooks) : hooks[i] \in bad}
    IN IF at = {} THEN 0 ELSE CHOOSE i \in at : \A j \in at : i <= j

\* An activation loop that goes on after a hook has raised.
activate_hooks_all(c, bad) ==
    [i \in 1..Len(c.plugin_hooks) |->
        Call(i, "activate", "", c.plugin_state, c.plugin_hooks[i] \in bad)]

\* The loop of activate(): hook.activate() in list order, left at the first
\* exception.
activate_hooks(c, bad) ==
    LET k == FirstRaiser(c.plugin_hooks, bad)
        n == IF k = 0 THEN Len(c.plugin_hooks) ELSE k
    IN [i \in 1..n |-> Call(i, "activate", "", c.plugin_state, i = k)]

\* An activate() that raises the hook's exception again after handling it.
activate_reraises(c, badActivate, badNotify) ==
    IF ~CanActivate(c.plugin_state)
    THEN Result(c, "PluginLifecycleException", <<>>)
    ELSE LET calls == activate_hooks(c, badActivate)
             failed == \E i \in 1..Len(calls) : calls[i].raised
             to == IF failed THEN STATE_DEACTIVATED ELSE STATE_ACTIVE
             after == [c EXCEPT !.plugin_state = to]
         IN Result(after, IF failed THEN "HookError" ELSE "ok",
                   calls \o notify_state_change(after, to, badNotify))

\* activate(): on success ACTIVE and the notification; a hook's exception is
\* logged, the state set to DEACTIVATED, the hooks notified, nothing raised.
activate(c, badActivate, badNotify) ==
    IF ~CanActivate(c.plugin_state)
    THEN Result(c, "PluginLifecycleException", <<>>)
    ELSE LET calls == activate_hooks(c, badActivate)
             failed == \E i \in 1..Len(calls) : calls[i].raised
             to == IF failed THEN STATE_DEACTIVATED ELSE STATE_ACTIVE
             after == [c EXCEPT !.plugin_state = to]
         IN Result(after, "ok", calls \o notify_state_change(after, to, badNotify))

\* A deactivation loop that the first exception leaves.
deactivate_hooks_stopAtFirst(c, bad) ==
    LET k == FirstRaiser(c.plugin_hooks, bad)
        n == IF k = 0 THEN Len(c.plugin_hooks) ELSE k
    IN [i \in 1..n |-> Call(i, "deactivate", "", c.plugin_state, i = k)]

\* The loop of deactivate(): hook.deactivate() on every hook, each in its own
\* try/except.
deactivate_hooks(c, bad) ==
    [i \in 1..Len(c.plugin_hooks) |->
        Call(i, "deactivate", "", c.plugin_state, c.plugin_hooks[i] \in bad)]

\* deactivate()
deactivate(c, badDeactivate, badNotify) ==
    IF ~CanDeactivate(c.plugin_state)
    THEN Result(c, "PluginLifecycleException", <<>>)
    ELSE LET after == [c EXCEPT !.plugin_state = STATE_DEACTIVATED]
         IN Result(after, "ok",
                   deactivate_hooks(c, badDeactivate)
                   \o notify_state_change(after, STATE_DEACTIVATED, badNotify))

\* uninstall()
uninstall(c, badNotify) ==
    IF ~CanUninstall(c.plugin_state)
    THEN Result(c, "PluginLifecycleException", <<>>)
    ELSE LET after == [c EXCEPT !.plugin_state = STATE_UNINSTALLED]
         IN Result(after, "ok",
                   notify_state_change(after, STATE_UNINSTALLED, badNotify))

\* dispose(): DISPOSED, plugin_hooks = None.
dispose(c) ==
    IF ~CanDispose(c.plugin_state)
    THEN Result(c, "PluginLifecycleException", <<>>)
    ELSE Result([c EXCEPT !.plugin_state = STATE_DISPOSED,
                          !.plugin_hooks = NoneHooks], "ok", <<>>)

\* --------------------------------------------------------- PluginManager
\* plugins_by_id.get(plugin_id): the reference of the container registered
\* under the id, 0 when there is none.
Lookup(byid, id) ==
    LET at == {i \in 1..Len(byid) : byid[i].id = id}
    IN IF at = {} THEN 0 ELSE byid[CHOOSE i \in at : TRUE].ref

\* del plugins_by_id[plugin_id]
DelId(byid, id) == SelectSeq(byid, LAMBDA e : e.id # id)

\* get_all_plugins(): the containers in the insertion order of plugins_by_id.
get_all_plugins(byid) == [i \in 1..Len(byid) |-> byid[i].ref]

\* __locate_plugin_for_import__: a registered plugin with the required id
\* (the requirements of the manifests modelled carry no version range).
locate_plugin_for_import(byid, dep) == Lookup(byid, dep)

\* __build_dependecies__: the exception it ends with.  all_exports is filled
\* only by build_dependencies(), which nothing calls, so no required
\* capability is satisfied; a required plugin must be registered; the last
\* line reads self.dependencies_manager, an attribute __init__ never sets
\* (it sets modules_dependencies and plugins_dependencies).
build_dependecies(byid, r) ==
    IF Requires(r) # <<>> THEN "UnsatisfiedDependencyException"
    ELSE IF \E i \in 1..Len(RequiresPlugins(r)) :
                locate_plugin_for_import(byid, RequiresPlugins(r)[i]) = 0
         THEN "UnsatisfiedDependencyException"
         ELSE "AttributeError"

\* del plugins_by_ref[ref]
DelRef(byref, r) == [q \in (DOMAIN byref) \ {r} |-> byref[q]]

\* plugins_by_ref[ref] = pc
PutRef(byref, r, c) == [q \in (DOMAIN byref) \cup {r} |-> IF q = r THEN c ELSE byref[q]]

\* PluginManager.__init__ sets dependencies_built to False and nothing sets
\* it afterwards.
dependencies_built == FALSE

\* __cleanup_dependencies__: reads plugin_container.requires, which a
\* PluginContainer does not have.
cleanup_dependencies == "AttributeError"

\* No container: the old_plugin of a registration that replaced nothing.
NoContainer == NewContainer(0)

\* reload_plugin: cleans the old container's dependencies up if they were
\* built, drops it from both maps as it is (no lifecycle method is called on
\* it), then builds the dependencies of the new one, which is stored nowhere.
\* retired is old_plugin as the method leaves it.
reload_plugin(byref, byid, id, r) ==
    LET old == Lookup(byid, id)
        byid1 == DelId(byid, id)
    IN [byref |-> DelRef(byref, old), byid |-> byid1,
        outcome |-> IF dependencies_built THEN cleanup_dependencies
                    ELSE build_dependecies(byid1, r),
        retired |-> byref[old]]

\* add_plugin: a fresh container is loaded; an id already registered goes to
\* reload_plugin, otherwise the container is registered under its reference
\* and its id before its dependencies are built.
add_plugin(byref, byid, r) ==
    IF r \in DOMAIN byref
    THEN [byref |-> byref, byid |-> byid, outcome |-> "Exception",
          retired |-> NoContainer]
    ELSE LET loaded == load(NewContainer(r)).c
             id == ManifestId(r)
         IN IF Lookup(byid, id) # 0
            THEN reload_plugin(byref, byid, id, r)
            ELSE LET byid1 == Append(byid, [id |-> id, ref |-> r])
                 IN [byref |-> PutRef(byref, r, loaded), byid |-> byid1,
                     outcome |-> build_dependecies(byid1, r),
                     retired |-> NoContainer]

\* install_plugin: get_plugin, then self.dependencies_manager is read before
\* plugin.install() is reached.
install_plugin(byid, id) ==
    IF Lookup(byid, id) = 0 THEN "Exception" ELSE "AttributeError"

\* install_all_plugins: its first statement reads self.dependencies_manager.
install_all_plugins == "AttributeError"

\* get_plugin raised: the id is not registered.
NotRegistered == [ref |-> 0, res |-> Result(NewContainer(0), "Exception", <<>>)]

\* activate_plugin: get_plugin, then plugin.activate().
activate_plugin(byref, byid, id, badActivate, badNotify) ==
    LET r == Lookup(byid, id)
    IN IF r = 0 THEN NotRegistered
       ELSE [ref |-> r, res |-> activate(byref[r], badActivate, badNotify)]

\* A deactivate_plugin without the test of the state: plugin.deactivate() is
\* called whatever the state.
deactivate_plugin_always(byref, byid, id, badDeactivate, badNotify) ==
    LET r == Lookup(byid, id)
    IN IF r = 0 THEN NotRegistered
       ELSE [ref |-> r, res |-> deactivate(byref[r], badDeactivate, badNotify)]

\* deactivate_plugin: get_plugin, then plugin.deactivate() if the plugin is
\* ACTIVE.
deactivate_plugin(byref, byid, id, badDeactivate, badNotify) ==
    LET r == Lookup(byid, id)
    IN IF r = 0 THEN NotRegistered
       ELSE IF byref[r].plugin_state = STATE_ACTIVE
            THEN [ref |-> r, res |-> deactivate(byref[r], badDeactivate, badNotify)]
            ELSE [ref |-> r, res |-> Result(byref[r], "ok", <<>>)]

\* uninstall_plugin: get_plugin, then plugin.uninstall().
uninstall_plugin(byref, byid, id, badNotify) ==
    LET r == Lookup(byid, id)
    IN IF r = 0 THEN NotRegistered
       ELSE [ref |-> r, res |-> uninstall(byref[r], badNotify)]

\* ------------------------------------------------------------- the calls
\* The record kept of the last call: the operation, the container it was
\* made on (0: none), that container's state before it, for install() the
\* first hook class that failed to load (0: none), the exception that reached
\* the caller ("ok": none), the hook methods invoked and, for add_plugin, the
\* container the registration replaced.
Done(op, r, from, failAt, outcome, calls) ==
    [op |-> op, ref |-> r, from |-> from, failAt |-> failAt,
     outcome |-> outcome, calls |-> calls, retired |-> NoContainer]

\* A container built by its caller for reference r.
InitContainer ==
    /\ container \in {NewContainer(r) : r \in Refs}
    /\ plugins_by_ref = <<>>
    /\ plugins_by_id = <<>>
    /\ pc = "idle"
    /\ todo = <<>>
    /\ passlog = <<>>
    /\ last = Done("init", 0, STATE_NONE, 0, "ok", <<>>)
    /\ input = <<>>
    /\ output = <<>>

\* A Platform as constructed: an empty PluginManager.
Init ==
    /\ container = NewContainer(1)
    /\ plugins_by_ref = <<>>
    /\ plugins_by_id = <<>>
    /\ pc = "idle"
    /\ todo = <<>>
    /\ passlog = <<>>
    /\ last = Done("init", 0, STATE_NONE, 0, "ok", <<>>)
    /\ input = <<>>
    /\ output = <<>>

\* The cap on installs of one container: an install() that would pass its
\* state check is made only while plugin_hooks has room for one more round.
MayInstall(c) ==
    c.plugin_state = STATE_UNINSTALLED
    => Len(c.plugin_hooks) + NumClasses(c.ref) <= MaxInstalls * NumClasses(c.ref)

\* A lifecycle method called on the container.
OnContainer(op, failAt, res) ==
    /\ container' = res.c
    /\ last' = Done(op, container.ref, container.plugin_state, failAt,
                    res.outcome, res.calls)
    /\ UNCHANGED <<input, output, plugins_by_ref, plugins_by_id, pc, todo, passlog>>

Load == OnContainer("load", 0, load(container))

Install(failAt, badNotify) ==
    /\ MayInstall(container)
    /\ OnContainer("install", failAt, install(container, failAt, badNotify))

Activate(badActivate, badNotify) ==
    OnContainer("activate", 0, activate(container, badActivate, badNotify))

Deactivate(badDeactivate, badNotify) ==
    OnContainer("deactivate", 0, deactivate(container, badDeactivate, badNotify))

Uninstall(badNotify) == OnContainer("uninstall", 0, uninstall(container, badNotify))

Dispose == OnContainer("dispose", 0, dispose(container))

\* A PluginManager method that delegates to the container registered under id.
OnPlugin(op, failAt, call) ==
    /\ pc = "idle"
    /\ plugins_by_ref' = IF call.ref = 0 THEN plugins_by_ref
                         ELSE [plugins_by_ref EXCEPT ![call.ref] = call.res.c]
    /\ last' = Done(op, call.ref,
                    IF call.ref = 0 THEN STATE_NONE
                    ELSE plugins_by_ref[call.ref].plugin_state,
                    failAt, call.res.outcome, call.res.calls)
    /\ UNCHANGED <<input, output, container, plugins_by_id, pc, todo, passlog>>

\* get_plugin(id).install(): the container's own install(), on a registered
\* container that has not been installed before.
InstallRegistered(id, failAt, badNotify) ==
    LET r == Lookup(plugins_by_id, id)
    IN /\ r # 0
       /\ plugins_by_ref[r].plugin_hooks = <<>>
       /\ OnPlugin("install", failAt, [ref |-> r,
                               res |-> install(plugins_by_ref[r], failAt, badNotify)])

AddPlugin(r) ==
    LET a == add_plugin(plugins_by_ref, plugins_by_id, r)
    IN /\ pc = "idle"
       /\ plugins_by_ref' = a.byref
       /\ plugins_by_id' = a.byid
       /\ last' = [Done("add_plugin", r, STATE_NONE, 0, a.outcome, <<>>)
                       EXCEPT !.retired = a.retired]
       /\ UNCHANGED <<input, output, container, pc, todo, passlog>>

InstallPlugin(id) ==
    /\ pc = "idle"
    /\ last' = Done("install_plugin", Lookup(plugins_by_id, id), STATE_NONE, 0,
                    install_plugin(plugins_by_id, id), <<>>)
    /\ UNCHANGED <<input, output, container, plugins_by_ref, plugins_by_id, pc, todo, passlog>>

InstallAllPlugins ==
    /\ pc = "idle"
    /\ last' = Done("install_all_plugins", 0, STATE_NONE, 0, install_all_plugins, <<>>)
    /\ UNCHANGED <<input, output, container, plugins_by_ref, plugins_by_id, pc, todo, passlog>>

ActivatePlugin(id, badActivate, badNotify) ==
    OnPlugin("activate_plugin", 0,
             activate_plugin(plugins_by_ref, plugins_by_id, id, badActivate, badNotify))

DeactivatePlugin(id, badDeactivate, badNotify) ==
    OnPlugin("deactivate_plugin", 0,
             deactivate_plugin(plugins_by_ref, plugins_by_id, id, badDeactivate, badNotify))

UninstallPlugin(id, badNotify) ==
    OnPlugin("uninstall_plugin", 0,
             uninstall_plugin(plugins_by_ref, plugins_by_id, id, badNotify))

\* ---------------------------------------------------------------- Platform
\* activate_all_plugins: the loop runs over the list get_all_plugins()
\* returned when it began.
ActivateAllBegin ==
    /\ pc = "idle"
    /\ pc' = "activate_all"
    /\ todo' = get_all_plugins(plugins_by_id)
    /\ passlog' = <<>>
    /\ UNCHANGED <<input, output, container, plugins_by_ref, plugins_by_id, last>>

\* The caller of the pass that is running.
PassName == IF pc = "start_activate" THEN "start" ELSE "activate_all_plugins"

\* A loop body without the try: what activate_plugin raises leaves the loop.
activate_or_deactivate_noTry(byref, byid, id, badActivate, badNotify, badDeactivate) ==
    LET a == activate_plugin(byref, byid, id, badActivate, badNotify)
        byref1 == IF a.ref = 0 THEN byref ELSE [byref EXCEPT ![a.ref] = a.res.c]
    IN [tried |-> a, byref |-> byref1, outcome |-> a.res.outcome]

\* The body of the loop of activate_all_plugins: activate_plugin in a try;
\* whatever it raises is logged and answered with deactivate_plugin, whose own
\* exception would leave the loop.  Returns the two calls, the registry after
\* them and the exception that leaves the loop ("ok": none).
activate_or_deactivate(byref, byid, id, badActivate, badNotify, badDeactivate) ==
    LET a == activate_plugin(byref, byid, id, badActivate, badNotify)
        byref1 == IF a.ref = 0 THEN byref ELSE [byref EXCEPT ![a.ref] = a.res.c]
        d == deactivate_plugin(byref1, byid, id, badDeactivate, badNotify)
        byref2 == IF d.ref = 0 THEN byref1 ELSE [byref1 EXCEPT ![d.ref] = d.res.c]
    IN IF a.res.outcome = "ok"
       THEN [tried |-> a, byref |-> byref1, outcome |-> "ok"]
       ELSE [tried |-> a, byref |-> byref2, outcome |-> d.res.outcome]

\* One iteration of the loop, on the next container of the list.
ActivateAllStep(badActivate, badNotify, badDeactivate) ==
    /\ pc \in {"activate_all", "start_activate"}
    /\ todo # <<>>
    /\ LET r == Head(todo)
           from == plugins_by_ref[r].plugin_state
           body == activate_or_deactivate(plugins_by_ref, plugins_by_id, ManifestId(r),
                                          badActivate, badNotify, badDeactivate)
           a == body.tried
           entry == [ref |-> r, from |-> from,
                     raised |-> \E i \in 1..Len(a.res.calls) :
                                    /\ a.res.calls[i].method = "activate"
                                    /\ a.res.calls[i].raised,
                     caught |-> a.res.outcome]
       IN /\ plugins_by_ref' = body.byref
          /\ IF body.outcome = "ok"
             THEN /\ pc' = pc
                  /\ todo' = Tail(todo)
                  /\ passlog' = Append(passlog, entry)
                  /\ last' = Done("activate_plugin", a.ref, from, 0,
                                  a.res.outcome, a.res.calls)
             ELSE /\ pc' = "idle"
                  /\ todo' = <<>>
                  /\ passlog' = <<>>
                  /\ last' = Done(PassName, 0, STATE_NONE, 0, body.outcome, <<>>)
    /\ UNCHANGED <<input, output, container, plugins_by_id>>

\* The loop has run through its list: the pass returns.
ActivateAllEnd ==
    /\ pc \in {"activate_all", "start_activate"}
    /\ todo = <<>>
    /\ pc' = "idle"
    /\ passlog' = <<>>
    /\ last' = Done(PassName, 0, STATE_NONE, 0, "ok", <<>>)
    /\ UNCHANGED <<input, output, container, plugins_by_ref, plugins_by_id, todo>>

\* The registry after a call made on one of its plugins.
Stored(byref, call) ==
    IF call.ref = 0 THEN byref ELSE [byref EXCEPT ![call.ref] = call.res.c]

\* deactivate_all_plugins: deactivate_plugin, in a try, on every container of
\* get_all_plugins() that is ACTIVE when its turn comes.
RECURSIVE deactivate_all_plugins(_, _, _, _, _)
deactivate_all_plugins(byref, byid, list, badDeactivate, badNotify) ==
    IF list = <<>> THEN byref
    ELSE LET r == Head(list)
             byref1 ==
                IF byref[r].plugin_state = STATE_ACTIVE
                THEN Stored(byref, deactivate_plugin(byref, byid, ManifestId(r),
                                                     badDeactivate, badNotify))
                ELSE byref
         IN deactivate_all_plugins(byref1, byid, Tail(list), badDeactivate, badNotify)

\* uninstall_all_plugins: uninstall_plugin, in a try, on every container that
\* is INSTALLED or DEACTIVATED when its turn comes.
RECURSIVE uninstall_all_plugins(_, _, _, _)
uninstall_all_plugins(byref, byid, list, badNotify) ==
    IF list = <<>> THEN byref
    ELSE LET r == Head(list)
             byref1 ==
                IF byref[r].plugin_state \in {STATE_INSTALLED, STATE_DEACTIVATED}
                THEN Stored(byref, uninstall_plugin(byref, byid, ManifestId(r),
                                                    badNotify))
                ELSE byref
         IN uninstall_all_plugins(byref1, byid, Tail(list), badNotify)

\* destroy_all_plugins: on every container that is UNINSTALLED when its turn
\* comes it calls, in a try, deactivate_plugin (not dispose).
RECURSIVE destroy_all_plugins(_, _, _, _, _)
destroy_all_plugins(byref, byid, list, badDeactivate, badNotify) ==
    IF list = <<>> THEN byref
    ELSE LET r == Head(list)
             byref1 ==
                IF byref[r].plugin_state = STATE_UNINSTALLED
                THEN Stored(byref, deactivate_plugin(byref, byid, ManifestId(r),
                                                     badDeactivate, badNotify))
                ELSE byref
         IN destroy_all_plugins(byref1, byid, Tail(list), badDeactivate, badNotify)

\* shutdown(): deactivate_all_plugins, uninstall_all_plugins,
\* deactivate_all_plugins once more, then gc(), which does nothing.  Every
\* pass swallows what its calls raise, so shutdown() returns normally.
shutdown(byref, byid, badDeactivate, badNotify) ==
    LET all == get_all_plugins(byid)
        byref1 == deactivate_all_plugins(byref, byid, all, badDeactivate, badNotify)
        byref2 == uninstall_all_plugins(byref1, byid, all, badNotify)
    IN deactivate_all_plugins(byref2, byid, all, badDeactivate, badNotify)

Shutdown(badDeactivate, badNotify) ==
    /\ pc = "idle"
    /\ plugins_by_ref' = shutdown(plugins_by_ref, plugins_by_id, badDeactivate, badNotify)
    /\ last' = Done("shutdown", 0, STATE_NONE, 0, "ok", <<>>)
    /\ UNCHANGED <<input, output, container, plugins_by_id, pc, todo, passlog>>

DestroyAllPlugins(badDeactivate, badNotify) ==
    /\ pc = "idle"
    /\ plugins_by_ref' = destroy_all_plugins(plugins_by_ref, plugins_by_id,
                                             get_all_plugins(plugins_by_id),
                                             badDeactivate, badNotify)
    /\ last' = Done("destroy_all_plugins", 0, STATE_NONE, 0, "ok", <<>>)
    /\ UNCHANGED <<input, output, container, plugins_by_id, pc, todo, passlog>>

\* start(): load_all_plugins over the k references discovery returned.
StartBegin(k) ==
    /\ pc = "idle"
    /\ pc' = "start_load"
    /\ todo' = [i \in 1..k |-> i]
    /\ passlog' = <<>>
    /\ UNCHANGED <<input, output, container, plugins_by_ref, plugins_by_id, last>>

\* One iteration of load_all_plugins: add_plugin(ref), outside any try, so
\* that its exception leaves start().
StartLoadStep ==
    /\ pc = "start_load"
    /\ todo # <<>>
    /\ LET r == Head(todo)
           a == add_plugin(plugins_by_ref, plugins_by_id, r)
       IN /\ plugins_by_ref' = a.byref
          /\ plugins_by_id' = a.byid
          /\ passlog' = <<>>
          /\ IF a.outcome = "ok"
             THEN /\ pc' = pc
                  /\ todo' = Tail(todo)
                  /\ last' = [Done("add_plugin", r, STATE_NONE, 0, "ok", <<>>)
                                  EXCEPT !.retired = a.retired]
             ELSE /\ pc' = "idle"
                  /\ todo' = <<>>
                  /\ last' = [Done("start", r, STATE_NONE, 0, a.outcome, <<>>)
                                  EXCEPT !.retired = a.retired]
    /\ UNCHANGED <<input, output, container>>

\* load_all_plugins has returned: install_all_plugins, outside any try, then
\* the activation pass.
StartInstallAll ==
    /\ pc = "start_load"
    /\ todo = <<>>
    /\ passlog' = <<>>
    /\ IF install_all_plugins = "ok"
       THEN /\ pc' = "start_activate"
            /\ todo' = get_all_plugins(plugins_by_id)
            /\ last' = Done("install_all_plugins", 0, STATE_NONE, 0, "ok", <<>>)
       ELSE /\ pc' = "idle"
            /\ todo' = <<>>
            /\ last' = Done("start", 0, STATE_NONE, 0, install_all_plugins, <<>>)
    /\ UNCHANGED <<input, output, container, plugins_by_ref, plugins_by_id>>

Ids == {ManifestId(r) : r \in Refs}

\* The hook classes of a manifest that misbehave in one call.
Bad(r) == SUBSET (1..NumClasses(r))

\* A container driven directly through its lifecycle methods.
NextContainer ==
    \/ Load
    \/ \E failAt \in 0..NumClasses(container.ref), bn \in Bad(container.ref) :
            Install(failAt, bn)
    \/ \E ba \in Bad(container.ref), bn \in Bad(container.ref) : Activate(ba, bn)
    \/ \E bd \in Bad(container.ref), bn \in Bad(container.ref) : Deactivate(bd, bn)
    \/ \E bn \in Bad(container.ref) : Uninstall(bn)
    \/ Dispose

SpecContainer == InitContainer /\ [][NextContainer]_vars

\* The hooks of a plugin misbehave in a call (each class raises from the
\* method called) or behave.
BadPlugin == {{}, Classes}

\* The Platform and its PluginManager; a registered container is installed
\* through get_plugin(id).install(), where every hook class loads or the last
\* one fails to.
Next ==
    \/ \E r \in Refs : AddPlugin(r)
    \/ \E id \in Ids : \E fails \in BOOLEAN, bad \in BadPlugin :
            /\ Lookup(plugins_by_id, id) # 0
            /\ InstallRegistered(id,
                    IF fails THEN NumClasses(Lookup(plugins_by_id, id)) ELSE 0, bad)
    \/ \E id \in Ids : InstallPlugin(id)
    \/ InstallAllPlugins
    \/ \E id \in Ids : \E bad \in BadPlugin : ActivatePlugin(id, bad, bad)
    \/ \E id \in Ids : \E bad \in BadPlugin : DeactivatePlugin(id, bad, bad)
    \/ \E id \in Ids : \E bad \in BadPlugin : UninstallPlugin(id, bad)
    \/ ActivateAllBegin
    \/ \E bad \in BadPlugin : ActivateAllStep(bad, bad, bad)
    \/ ActivateAllEnd
    \/ \E k \in 0..NumRefs : StartBegin(k)
    \/ StartLoadStep
    \/ StartInstallAll
    \/ \E bad \in BadPlugin : Shutdown(bad, bad)
    \/ \E bad \in BadPlugin : DestroyAllPlugins(bad, bad)

Spec == Init /\ [][Next]_vars

\* ================================================ plugins/support.py
\* ------------------------------------------------------------ strings
\* A str is the sequence of its code points; only '.' and the digits occur.
Dot == 46
Zero == 48

\* None, where a version string is expected.
None == <<-1>>

\* str(n) of a natural number.
RECURSIVE Str(_)
Str(n) == IF n < 10 THEN <<Zero + n>> ELSE Str(n \div 10) \o <<Zero + (n % 10)>>

\* '.'.join(segments) of a non-empty list.
RECURSIVE Join(_)
Join(segs) ==
    IF Len(segs) = 1 THEN segs[1]
    ELSE segs[1] \o <<Dot>> \o Join(Tail(segs))

\* s.split('.')
RECURSIVE Split(_)
Split(s) ==
    IF \A i \in 1..Len(s) : s[i] # Dot THEN <<s>>
    ELSE LET k == CHOOSE i \in 1..Len(s) :
                    s[i] = Dot /\ \A j \in 1..(i - 1) : s[j] # Dot
         IN <<SubSeq(s, 1, k - 1)>> \o Split(SubSeq(s, k + 1, Len(s)))

\* a < b on str: the first code point that differs decides, a proper prefix
\* is the smaller.
RECURSIVE StrLess(_, _)
StrLess(a, b) ==
    IF b = <<>> THEN FALSE
    ELSE IF a = <<>> THEN TRUE
    ELSE IF a[1] # b[1] THEN a[1] < b[1]
    ELSE StrLess(Tail(a), Tail(b))

\* a <= b on str.
StrLessEq(a, b) == a = b \/ StrLess(a, b)

\* ----------------------------------------------------- version ranges
\* check_min_version: version >= min_version or version > min_version, on
\* the strings as they are.
check_min_version(version, min_version, incl) ==
    IF min_version = None THEN TRUE
    ELSE IF incl THEN StrLessEq(min_version, version)
         ELSE StrLess(min_version, version)

\* check_max_version that takes a missing upper bound for a bound nothing
\* meets.
check_max_version_noneFails(version, max_version, incl) ==
    IF max_version = None THEN FALSE
    ELSE IF incl THEN StrLessEq(version, max_version)
         ELSE StrLess(version, max_version)

\* check_max_version: version <= max_version or version < max_version.
check_max_version(version, max_version, incl) ==
    IF max_version = None THEN TRUE
    ELSE IF incl THEN StrLessEq(version, max_version)
         ELSE StrLess(version, max_version)

\* normalize_version_string: a version of fewer than three segments gets '0'
\* segments appended; any other is returned as it is.
normalize_version_string(version) ==
    IF version = None THEN None
    ELSE LET vrs == Split(version)
         IN IF Len(vrs) < 3
            THEN Join(vrs \o [i \in 1..(3 - Len(vrs)) |-> <<Zero>>])
            ELSE version

\* normalize_version of a (version, inclusive) tuple.
normalize_version(version_tpl) ==
    <<normalize_version_string(version_tpl[1]), version_tpl[2]>>

\* RequiresEntry.__init__: the version_range it stores.  No range (None or
\* an empty list, modelled by the empty list) means no bound on either side,
\* a list of one bound gets no upper bound.
RequiresEntry(version_range) ==
    LET vr1 == IF Len(version_range) = 0
               THEN <<<<None, FALSE>>, <<None, FALSE>>>> ELSE version_range
        vr2 == IF Len(vr1) < 2 THEN Append(vr1, <<None, FALSE>>) ELSE vr1
    IN <<normalize_version(vr2[1]), normalize_version(vr2[2])>>

\* RequiresEntry.version_in_range on the stored range.
version_in_range(stored, version) ==
    /\ check_min_version(version, stored[1][1], stored[1][2])
    /\ check_max_version(version, stored[2][1], stored[2][2])

\* Version numbers of one and of two digits.
Majors == {0, 1, 2, 9, 10, 11}

\* The version strings M, M.0, M.0.0 and M.9.9.
Versions ==
    UNION {{Str(m), Join(<<Str(m), Str(0)>>), Join(<<Str(m), Str(0), Str(0)>>),
            Join(<<Str(m), Str(9), Str(9)>>)} : m \in Majors}

\* A bound of a range as its caller writes it.
BoundTuples == (Versions \cup {None}) \X BOOLEAN

\* The version_range arguments: no bound, a lower bound, both bounds.
VersionRanges ==
    {<<>>} \cup {<<lo>> : lo \in BoundTuples}
           \cup {<<lo, hi>> : lo \in BoundTuples, hi \in BoundTuples}

\* A requirement is about to be constructed and asked about a version.
InitVersion ==
    /\ container = NewContainer(1)
    /\ plugins_by_ref = <<>>
    /\ plugins_by_id = <<>>
    /\ pc = "idle"
    /\ todo = <<>>
    /\ passlog = <<>>
    /\ last = Done("init", 0, STATE_NONE, 0, "ok", <<>>)
    /\ input \in [version_range : VersionRanges, version : Versions]
    /\ output = [done |-> FALSE, value |-> FALSE]

\* RequiresEntry(name, version_range).version_in_range(version)
VersionInRange ==
    /\ ~output.done
    /\ output' = [done |-> TRUE,
                  value |-> version_in_range(RequiresEntry(input.version_range),
                                             input.version)]
    /\ UNCHANGED <<input, container, plugins_by_ref, plugins_by_id, pc, todo,
                   passlog, last>>

NextVersion == VersionInRange

SpecVersion == InitVersion /\ [][NextVersion]_vars

\* ================================================ PluginManifestParser
\* A line of a descriptor is the sequence of its tokens: a blank " ", the
\* separators ":" and ";", the comment mark "#", or a word (a run of other
\* characters).  A str of the parser is such a sequence.

\* None, where the parser or the builder holds a str or an entry.
NoValue == <<"<None>">>

\* A list attribute of the builder: None, or its items.
NoneList == [none |-> TRUE, items |-> <<>>]
List(items) == [none |-> FALSE, items |-> items]

\* str.strip(): the blanks at both ends removed.
RECURSIVE Strip(_)
Strip(str) ==
    IF str = <<>> THEN str
    ELSE IF Head(str) = " " THEN Strip(Tail(str))
    ELSE IF str[Len(str)] = " " THEN Strip(SubSeq(str, 1, Len(str) - 1))
    ELSE str

\* str.upper() of a word.
upper_word(w) ==
    CASE w = "Plugin-Id" -> "PLUGIN-ID"
      [] w = "Version" -> "VERSION"
      [] w = "Plugin-Classes" -> "PLUGIN-CLASSES"
      [] w = "Requires" -> "REQUIRES"
      [] w = "Exports" -> "EXPORTS"
      [] w = "Requires-Plugins" -> "REQUIRES-PLUGINS"
      [] w = "Foo" -> "FOO"
      [] OTHER -> w

\* str.upper()
upper(str) == [i \in 1..Len(str) |-> upper_word(str[i])]

\* PluginManifestParser.BLOCKS: the property of the builder a block goes to
\* ("": the block name is not a key).
BLOCKS(name) ==
    CASE name = <<"PLUGIN-ID">> -> "id"
      [] name = <<"VERSION">> -> "version"
      [] name = <<"PLUGIN-CLASSES">> -> "plugin_classes"
      [] name = <<"REQUIRES">> -> "requires"
      [] name = <<"EXPORTS">> -> "exports"
      [] name = <<"REQUIRES-PLUGINS">> -> "requires_plugins"
      [] OTHER -> ""

\* PluginManifestBuilder.__init__
NewBuilder ==
    [id |-> NoValue, version |-> NoValue, plugin_classes |-> List(<<>>),
     requires |-> List(<<>>), requires_plugins |-> List(<<>>),
     exports |-> List(<<>>)]

\* read_block: the content handler of the property, or read_unknown_block.
\* read_plugin_id and read_plugin_version return the content stripped; the
\* handlers of the four list blocks and read_unknown_block return None.
read_block(property, content) ==
    IF property \in {"id", "version"} THEN Strip(content) ELSE NoValue

\* The method of the builder named by the property: id and version store the
\* entity, plugin_classes replaces the list by it, the other three append it
\* to their list.
builder_method(builder, property, entity) ==
    CASE property = "id" -> [builder EXCEPT !.id = entity]
      [] property = "version" -> [builder EXCEPT !.version = entity]
      [] property = "plugin_classes" ->
            [builder EXCEPT !.plugin_classes =
                IF entity = NoValue THEN NoneList ELSE List(entity)]
      [] property = "requires" ->
            [builder EXCEPT !.requires = List(Append(@.items, entity))]
      [] property = "requires_plugins" ->
            [builder EXCEPT !.requires_plugins = List(Append(@.items, entity))]
      [] property = "exports" ->
            [builder EXCEPT !.exports = List(Append(@.items, entity))]
      [] OTHER -> builder

\* on_block: looks the block up by its upper-case name, reads the content
\* and, for a block that is a key of BLOCKS, hands the entity to the builder.
on_block(block, content, builder) ==
    LET property == BLOCKS(upper(block))
    IN builder_method(builder, property, read_block(property, content))

\* block_re.match(line): the position of the first ":" when the line has one
\* with something before it, 0 when it does not match.
block_re_match(line) ==
    LET at == {k \in 1..Len(line) : line[k] = ":"}
        first == IF at = {} THEN 0 ELSE CHOOSE k \in at : \A l \in at : k <= l
    IN IF first > 1 THEN first ELSE 0

\* The parser before its first line: no block, no content, a new builder,
\* no block handed over.
NewParse ==
    [pos |-> 0, block |-> NoValue, content |-> <<>>, builder |-> NewBuilder,
     calls |-> <<>>, done |-> FALSE, outcome |-> "ok"]

\* The body of the loop of parse() for one line read: a comment line is
\* skipped; a block header hands the block before it, if any, to on_block
\* and opens its own; any other line is appended, stripped, to the content.
parse_line(p, raw) ==
    LET line == Strip(raw)
        m == block_re_match(line)
        read == [p EXCEPT !.pos = @ + 1]
    IN IF line # <<>> /\ line[1] = "#" THEN read
       ELSE IF m # 0
            THEN LET opened == [read EXCEPT !.block = SubSeq(line, 1, m - 1),
                                            !.content = SubSeq(line, m + 1, Len(line))]
                 IN IF p.block # NoValue
                    THEN [opened EXCEPT
                            !.builder = on_block(Strip(p.block), p.content, p.builder),
                            !.calls = Append(@, [block |-> Strip(p.block),
                                                 content |-> p.content])]
                    ELSE opened
            ELSE [read EXCEPT !.content = @ \o line]

\* parse() after readline() has returned '': builder.build() as it is, which
\* raises nothing.
parse_end(p) == [p EXCEPT !.done = TRUE]

\* parse(): the loop over the lines of the stream, then build().
RECURSIVE parse_from(_, _)
parse_from(p, lines) ==
    IF lines = <<>> THEN parse_end(p)
    ELSE parse_from(parse_line(p, Head(lines)), Tail(lines))

parse(descriptor) == parse_from(NewParse, descriptor)

\* The descriptor of TestPluginManifestParser, line by line.
TestDescriptor ==
    <<<<>>,
      <<" ", "Plugin-Id", ":", " ", "test.plugin">>,
      <<" ", "Version", ":", " ", "0.1.2.TEST">>,
      <<" ", "Plugin-Classes", ":", " ", "test.class.One", ";">>,
      <<" ", "test.class.Two">>,
      <<" ", "Requires", ":", " ", "test.pkg [0.2.3, 0.2.5)", ";", " ",
        "test.pkg2 (1,7)", ";", " ", "other.pkg [1.a, 3.4.5]">>,
      <<" ", "Exports", ":", " ", "test.plugin [1.0.0]", ";", " ",
        "test.plugin.module[1.0.0]">>,
      <<" ", "Requires-Plugins", ":", " ", "plugin1 [1.0]", ";">>,
      <<" ", "plugin2 (1.0, 2.0)", ";">>,
      <<" ">>>>

\* The lines generated descriptors are made of: headers of known blocks and
\* of an unknown one, a continuation line, a comment and a blank line.
Lines ==
    {<<"Plugin-Id", ":", " ", "p">>,
     <<" ", "Version", ":", "1", " ">>,
     <<"Plugin-Classes", ":", "A", ";">>,
     <<"Requires", ":", "m", ";", "n">>,
     <<"Foo", ":", "z">>,
     <<" ", "B">>,
     <<"#", " ", "Version", ":", "2">>,
     <<>>}

Descriptors ==
    UNION {[1..n -> Lines] : n \in 0..MaxLines} \cup {TestDescriptor}

\* A parser as constructed, about to parse a descriptor.
InitParser ==
    /\ container = NewContainer(1)
    /\ plugins_by_ref = <<>>
    /\ plugins_by_id = <<>>
    /\ pc = "idle"
    /\ todo = <<>>
    /\ passlog = <<>>
    /\ last = Done("init", 0, STATE_NONE, 0, "ok", <<>>)
    /\ input \in Descriptors
    /\ output = NewParse

\* One turn of the loop of parse(): readline() returned a line.
ReadLine ==
    /\ ~output.done
    /\ output.pos < Len(input)
    /\ output' = parse_line(output, input[output.pos + 1])
    /\ UNCHANGED <<input, container, plugins_by_ref, plugins_by_id, pc, todo,
                   passlog, last>>

\* readline() returned '': the loop is left and the manifest built.
EndOfStream ==
    /\ ~output.done
    /\ output.pos = Len(input)
    /\ output' = parse_end(output)
    /\ UNCHANGED <<input, container, plugins_by_ref, plugins_by_id, pc, todo,
                   passlog, last>>

NextParser ==
    \/ ReadLine
    \/ EndOfStream

SpecParser == InitParser /\ [][NextParser]_vars

\* ============================================ nanopp/dependencies.py
\* DependenciesManager, as platform.py calls it: add_dependency(id,
\* dependencies, owner) and get_install_order().  A graph is the list of its
\* nodes in insertion order.
NodeIds == 1..NumNodes

DependsOnSets == {d \in SUBSET NodeIds : Cardinality(d) <= MaxDependsOn}

\* The ids registered in a graph.
Registered(graph) == {graph[i].id : i \in 1..Len(graph)}

\* add_dependency: registers the node, or replaces its edge set where it is.
add_dependency(graph, id, dependsOn) ==
    IF id \in Registered(graph)
    THEN [i \in 1..Len(graph) |->
            IF graph[i].id = id THEN [id |-> id, dependsOn |-> dependsOn]
            ELSE graph[i]]
    ELSE Append(graph, [id |-> id, dependsOn |-> dependsOn])

\* The nodes not yet ordered whose registered dependencies all are.
Ready(graph, order) ==
    LET placed == {order[k] : k \in 1..Len(order)}
    IN {i \in 1..Len(graph) :
          /\ graph[i].id \notin placed
          /\ (graph[i].dependsOn \cap Registered(graph)) \subseteq placed}

\* A tie-break by insertion order reversed: the last ready node inserted.
NextReady_last(ready) == CHOOSE i \in ready : \A j \in ready : j <= i

\* The tie-break among ready nodes: the first one inserted.
NextReady(ready) == CHOOSE i \in ready : \A j \in ready : i <= j

\* An order computation that hands out what it has when it is stuck.
Stuck_partial(order) == [outcome |-> "ok", order |-> order]

\* No node is ready and some are left: they lie on or behind a cycle.
Stuck(order) == [outcome |-> "CyclicDependencyError", order |-> <<>>]

\* The order is grown by one ready node at a time.
RECURSIVE grow_order(_, _)
grow_order(graph, order) ==
    IF Len(order) = Len(graph) THEN [outcome |-> "ok", order |-> order]
    ELSE IF Ready(graph, order) = {} THEN Stuck(order)
    ELSE grow_order(graph, Append(order, graph[NextReady(Ready(graph, order))].id))

\* get_install_order: a topological order of all nodes, or the cycle error,
\* or the error for an edge to an id that was never registered.
get_install_order(graph) ==
    LET grown == grow_order(graph, <<>>)
    IN IF grown.outcome # "ok" THEN grown
       ELSE IF \E i \in 1..Len(graph) : ~(graph[i].dependsOn \subseteq Registered(graph))
            THEN [outcome |-> "UnresolvedDependencyError", order |-> <<>>]
            ELSE grown

\* No order has been asked for since the graph changed.
NotComputed == [done |-> FALSE, outcome |-> "ok", order |-> <<>>]

\* A DependenciesManager as constructed: no node.
InitGraph ==
    /\ container = NewContainer(1)
    /\ plugins_by_ref = <<>>
    /\ plugins_by_id = <<>>
    /\ pc = "idle"
    /\ todo = <<>>
    /\ passlog = <<>>
    /\ last = Done("init", 0, STATE_NONE, 0, "ok", <<>>)
    /\ input = <<>>
    /\ output = NotComputed

\* add_dependency for a plugin id not yet in the graph.
AddDependency(id, dependsOn) ==
    /\ id \notin Registered(input)
    /\ input' = add_dependency(input, id, dependsOn)
    /\ output' = NotComputed
    /\ UNCHANGED platformVars

GetInstallOrder ==
    /\ ~output.done
    /\ output' = [done |-> TRUE, outcome |-> get_install_order(input).outcome,
                  order |-> get_install_order(input).order]
    /\ UNCHANGED <<input, container, plugins_by_ref, plugins_by_id, pc, todo,
                   passlog, last>>

NextGraph ==
    \/ \E id \in NodeIds, dependsOn \in DependsOnSets : AddDependency(id, dependsOn)
    \/ GetInstallOrder

SpecGraph == InitGraph /\ [][NextGraph]_vars

\* ===================================================== lifecycle claims
\* (checked under SpecContainer)

LifecycleException == "PluginLifecycleException"

\* The states a lifecycle method accepts.
ValidFrom(op) ==
    CASE op = "install" -> {STATE_UNINSTALLED}
      [] op = "activate" -> {STATE_INSTALLED, STATE_DEACTIVATED}
      [] op = "deactivate" -> {STATE_ACTIVE}
      [] op = "uninstall" -> {STATE_INSTALLED, STATE_DEACTIVATED}
      [] op = "dispose" -> {STATE_UNINSTALLED}
      [] OTHER -> {STATE_NONE, STATE_UNINSTALLED, STATE_INSTALLED, STATE_ACTIVE,
                   STATE_DEACTIVATED, STATE_DISPOSED}

\* The calls of `method` the last operation made on the hook at position i.
CallsOn(method, i) ==
    {j \in 1..Len(last.calls) :
        last.calls[j].method = method /\ last.calls[j].hook = i}

\* C1: install, activate, deactivate, uninstall or dispose called from a state
\* outside its valid source set fails with PluginLifecycleException, invokes
\* no hook method and leaves the state and the hook list as they were.
C1_InvalidStateFails ==
    [][(/\ last'.op \in {"install", "activate", "deactivate", "uninstall", "dispose"}
        /\ container.plugin_state \notin ValidFrom(last'.op))
       => (/\ last'.outcome = LifecycleException
           /\ last'.calls = <<>>
           /\ container'.plugin_state = container.plugin_state
           /\ container'.plugin_hooks = container.plugin_hooks)]_vars

\* C1 witness: deactivate() was refused on an INSTALLED plugin that has hooks.
C1_Witness ==
    /\ last.op = "deactivate"
    /\ last.from = STATE_INSTALLED
    /\ last.outcome = LifecycleException
    /\ Len(container.plugin_hooks) >= 2

\* C2: DISPOSED is terminal: from a DISPOSED plugin every call (load, install,
\* activate, deactivate, uninstall, dispose) fails with
\* PluginLifecycleException and the state stays DISPOSED.
C2_DisposedTerminal ==
    [][container.plugin_state = STATE_DISPOSED
       => (/\ container'.plugin_state = STATE_DISPOSED
           /\ last'.outcome = LifecycleException)]_vars

\* C2 witness: a second dispose() was refused.
C2_Witness ==
    /\ last.op = "dispose"
    /\ last.from = STATE_DISPOSED
    /\ last.outcome = LifecycleException
    /\ container.plugin_state = STATE_DISPOSED

\* C3: install() from UNINSTALLED ends DISPOSED with the error raised to the
\* caller when a hook class fails to load, and INSTALLED when none fails.
C3_InstallOutcome ==
    (last.op = "install" /\ last.from = STATE_UNINSTALLED)
    => IF last.failAt # 0
       THEN container.plugin_state = STATE_DISPOSED /\ last.outcome # "ok"
       ELSE container.plugin_state = STATE_INSTALLED /\ last.outcome = "ok"

\* C3 witness: the second hook class failed to load and the plugin is DISPOSED.
C3_Witness ==
    /\ last.op = "install"
    /\ last.from = STATE_UNINSTALLED
    /\ last.failAt = 2
    /\ last.outcome = "LoadError"
    /\ container.plugin_state = STATE_DISPOSED

\* C4: a DISPOSED plugin holds no hook instances, whether it was disposed or
\* its install() failed.
C4_NoPartialHooks ==
    container.plugin_state = STATE_DISPOSED
    => container.plugin_hooks \in {NoneHooks, <<>>}

\* C5: activate() from INSTALLED or DEACTIVATED raises nothing; with no hook
\* raising the plugin is ACTIVE, with a hook raising it is DEACTIVATED and
\* every hook was notified of DEACTIVATED.
C5_ActivateNeverRaises ==
    (last.op = "activate" /\ last.from \in {STATE_INSTALLED, STATE_DEACTIVATED})
    => /\ last.outcome = "ok"
       /\ IF \E j \in 1..Len(last.calls) :
                last.calls[j].method = "activate" /\ last.calls[j].raised
          THEN /\ container.plugin_state = STATE_DEACTIVATED
               /\ \A i \in 1..Len(container.plugin_hooks) :
                    \E j \in CallsOn("on_state_change", i) :
                        last.calls[j].arg = STATE_DEACTIVATED
          ELSE container.plugin_state = STATE_ACTIVE

\* C5 witness: a hook raised in activate() and the INSTALLED plugin ended
\* DEACTIVATED.
C5_Witness ==
    /\ last.op = "activate"
    /\ last.from = STATE_INSTALLED
    /\ last.outcome = "ok"
    /\ \E j \in 1..Len(last.calls) :
            last.calls[j].method = "activate" /\ last.calls[j].raised
    /\ container.plugin_state = STATE_DEACTIVATED

\* C6: deactivate() from ACTIVE calls deactivate() exactly once on every hook,
\* whichever hooks raise, raises nothing and ends DEACTIVATED.
C6_DeactivateAllHooks ==
    (last.op = "deactivate" /\ last.from = STATE_ACTIVE)
    => /\ last.outcome = "ok"
       /\ container.plugin_state = STATE_DEACTIVATED
       /\ \A i \in 1..Len(container.plugin_hooks) :
            Cardinality(CallsOn("deactivate", i)) = 1

\* C6 witness: the first of several hooks raised in deactivate().
C6_Witness ==
    /\ last.op = "deactivate"
    /\ last.from = STATE_ACTIVE
    /\ Len(container.plugin_hooks) >= 2
    /\ last.calls[1].method = "deactivate"
    /\ last.calls[1].raised
    /\ container.plugin_state = STATE_DEACTIVATED

\* C7: after install, activate, deactivate or uninstall has succeeded, every
\* hook has received on_state_change exactly once, with the new state, at a
\* moment the plugin was already in that state, also when a hook raised in it.
C7_NotifiedOnce ==
    (last.op \in {"install", "activate", "deactivate", "uninstall"} /\ last.outcome = "ok")
    => \A i \in 1..Len(container.plugin_hooks) :
         /\ Cardinality(CallsOn("on_state_change", i)) = 1
         /\ \A j \in CallsOn("on_state_change", i) :
              /\ last.calls[j].arg = container.plugin_state
              /\ last.calls[j].seen = container.plugin_state

\* C7 witness: uninstall() succeeded although the first hook raised in
\* on_state_change, and the second hook was notified.
C7_Witness ==
    /\ last.op = "uninstall"
    /\ last.outcome = "ok"
    /\ Len(last.calls) >= 2
    /\ last.calls[1].raised
    /\ last.calls[2].method = "on_state_change"
    /\ last.calls[2].arg = STATE_UNINSTALLED

\* ====================================================== platform claims
\* (checked under Spec)

\* C8: the bulk activation pass runs to completion whatever its plugins do;
\* every INSTALLED plugin it has handled is ACTIVE when none of its hooks
\* raised in activate() and DEACTIVATED when one did, wherever the plugin sits
\* in the iteration order.
C8_ActivationIsolation ==
    /\ last.op = "activate_all_plugins" => last.outcome = "ok"
    /\ pc = "activate_all"
       => \A k \in 1..Len(passlog) :
            passlog[k].from = STATE_INSTALLED
            => plugins_by_ref[passlog[k].ref].plugin_state =
                 IF passlog[k].raised THEN STATE_DEACTIVATED ELSE STATE_ACTIVE

\* C8 witness: the pass is through its list; the first plugin's hook raised
\* and that plugin is DEACTIVATED, the plugin after it is ACTIVE.
C8_Witness ==
    /\ pc = "activate_all"
    /\ todo = <<>>
    /\ Len(passlog) >= 2
    /\ passlog[1].from = STATE_INSTALLED
    /\ passlog[1].raised
    /\ plugins_by_ref[passlog[1].ref].plugin_state = STATE_DEACTIVATED
    /\ passlog[2].from = STATE_INSTALLED
    /\ ~passlog[2].raised
    /\ plugins_by_ref[passlog[2].ref].plugin_state = STATE_ACTIVE

\* C9: start() over registered plugins never aborts because a plugin failed:
\* it returns normally, and then every registered plugin is ACTIVE,
\* DEACTIVATED or DISPOSED.
C9_StartNeverAborts ==
    (last.op = "start" /\ plugins_by_id # <<>>)
    => /\ last.outcome = "ok"
       /\ \A r \in DOMAIN plugins_by_ref :
            plugins_by_ref[r].plugin_state
                \in {STATE_ACTIVE, STATE_DEACTIVATED, STATE_DISPOSED}

\* C10: install_all_plugins installs the registered plugins in the computed
\* install order, each marked available after its own install: it gets to
\* install plugins, so that after it has returned no registered plugin is left
\* UNINSTALLED, and it does not end in an error of the manager itself.
C10_InstallAllInstalls ==
    (last.op = "install_all_plugins" /\ plugins_by_id # <<>>)
    => /\ last.outcome # "AttributeError"
       /\ last.outcome = "ok"
          => \A r \in DOMAIN plugins_by_ref :
                plugins_by_ref[r].plugin_state # STATE_UNINSTALLED


\* ------------------------------------------------------- registration
\* The last call was an add_plugin (made directly or by start()) that found
\* its id registered for another container.
ReRegistered ==
    /\ last.op \in {"add_plugin", "start"}
    /\ last.retired # NoContainer

\* The entries of plugins_by_id under an id.
EntriesOf(byid, id) == {i \in 1..Len(byid) : byid[i].id = id}

\* C11: after add_plugin with a new reference whose manifest id is already
\* registered, the new plugin is registered under that id exactly once and
\* under its reference, the old reference is registered no more, and the
\* registry is as large as it was.
C11_ReRegistrationReplaces ==
    [][(last' # last /\ ReRegistered')
       => /\ Lookup(plugins_by_id', ManifestId(last'.ref)) = last'.ref
          /\ Cardinality(EntriesOf(plugins_by_id', ManifestId(last'.ref))) = 1
          /\ last'.ref \in DOMAIN plugins_by_ref'
          /\ last'.retired.ref \notin DOMAIN plugins_by_ref'
          /\ Len(plugins_by_id') = Len(plugins_by_id)]_vars

\* C12: on re-registration the container registered before is retired: it
\* has been taken through uninstall and dispose and is DISPOSED when
\* add_plugin is through with it.
C12_OldRetired ==
    ReRegistered => last.retired.plugin_state = STATE_DISPOSED

\* C13: a requirement that cannot be resolved at registration makes add_plugin
\* fail with the unsatisfied-dependency error and leaves the plugin DISPOSED
\* if it is registered at all; the error stays in add_plugin, so that the
\* loading pass of start() goes on with the references after it.
C13_UnsatisfiedAborted ==
    (last.op \in {"add_plugin", "start"}
        /\ last.outcome = "UnsatisfiedDependencyException")
    => /\ last.op = "add_plugin"
       /\ last.ref \in DOMAIN plugins_by_ref
          => plugins_by_ref[last.ref].plugin_state = STATE_DISPOSED


\* ------------------------------------------------------------ shutdown
Installed == {STATE_INSTALLED, STATE_ACTIVE, STATE_DEACTIVATED}

\* C14: when shutdown() has returned, no registered plugin is INSTALLED,
\* ACTIVE or DEACTIVATED, and every plugin that was installed when it began
\* has been uninstalled and disposed: it is DISPOSED.
C14_ShutdownDisposes ==
    [][(last' # last /\ last'.op = "shutdown")
       => \A r \in DOMAIN plugins_by_ref :
            /\ plugins_by_ref'[r].plugin_state \notin Installed
            /\ plugins_by_ref[r].plugin_state \in Installed
               => plugins_by_ref'[r].plugin_state = STATE_DISPOSED]_vars


\* ---------------------------------------------------- deactivate_plugin
\* C17: deactivate_plugin on a registered plugin that is not ACTIVE raises
\* nothing, calls no hook and leaves the state as it was; on an ACTIVE plugin
\* it is the container's deactivate(): every hook is asked to deactivate and
\* the plugin is DEACTIVATED.
C17_DeactivateNoOp ==
    (last.op = "deactivate_plugin" /\ last.ref # 0)
    => /\ last.outcome = "ok"
       /\ IF last.from = STATE_ACTIVE
          THEN /\ plugins_by_ref[last.ref].plugin_state = STATE_DEACTIVATED
               /\ \A i \in 1..Len(plugins_by_ref[last.ref].plugin_hooks) :
                    Cardinality(CallsOn("deactivate", i)) = 1
          ELSE /\ last.calls = <<>>
               /\ plugins_by_ref[last.ref].plugin_state = last.from

\* C17 witness: deactivate_plugin was called on an INSTALLED plugin with
\* hooks and returned without a call to one of them.
C17_Witness ==
    /\ last.op = "deactivate_plugin"
    /\ last.ref # 0
    /\ last.from = STATE_INSTALLED
    /\ plugins_by_ref[last.ref].plugin_hooks # <<>>
    /\ last.outcome = "ok"
    /\ last.calls = <<>>


\* ===================================================== version claims
\* (checked under SpecVersion)

\* int(segment) of a segment of digits.
RECURSIVE IntOf(_)
IntOf(seg) ==
    IF seg = <<>> THEN 0
    ELSE 10 * IntOf(SubSeq(seg, 1, Len(seg) - 1)) + (seg[Len(seg)] - Zero)

\* A version as its three numbers: missing trailing segments count as 0.
Numbers(version) ==
    LET vrs == Split(version)
    IN [i \in 1..3 |-> IF i <= Len(vrs) THEN IntOf(vrs[i]) ELSE 0]

\* a < b, segment by segment, each pair of segments compared as numbers.
NumLess(a, b) ==
    \E i \in 1..3 : a[i] < b[i] /\ \A j \in 1..(i - 1) : a[j] = b[j]

\* The bounds of the range as the caller gave them (None: absent).
Lower == IF Len(input.version_range) >= 1 THEN input.version_range[1]
         ELSE <<None, FALSE>>
Upper == IF Len(input.version_range) >= 2 THEN input.version_range[2]
         ELSE <<None, FALSE>>

\* The queried version meets the lower, the upper bound of the range.
MeetsLower ==
    \/ Lower[1] = None
    \/ NumLess(Numbers(Lower[1]), Numbers(input.version))
    \/ Lower[2] /\ Numbers(Lower[1]) = Numbers(input.version)
MeetsUpper ==
    \/ Upper[1] = None
    \/ NumLess(Numbers(input.version), Numbers(Upper[1]))
    \/ Upper[2] /\ Numbers(Upper[1]) = Numbers(input.version)

\* C18: version_in_range is true exactly when the version meets the lower
\* bound (>= if inclusive, > if exclusive) and the upper bound (<= if
\* inclusive, < if exclusive); so a range whose lower bound exceeds its upper
\* bound contains no version.
C18_BoundaryLaw ==
    output.done
    => /\ output.value = (MeetsLower /\ MeetsUpper)
       /\ (Lower[1] # None /\ Upper[1] # None
              /\ NumLess(Numbers(Upper[1]), Numbers(Lower[1])))
          => ~output.value

\* C19: the comparison behind version_in_range is made segment by segment on
\* the version and the bound normalized to three segments, two segments of
\* digits being compared as numbers: a version is in the range from an
\* inclusive lower bound upwards exactly when its three numbers are not
\* below those of the bound.
C19_NumericSegments ==
    (output.done /\ Len(input.version_range) = 1 /\ Lower[1] # None /\ Lower[2])
    => output.value = ~NumLess(Numbers(input.version), Numbers(Lower[1]))

\* C20: a requirement constructed without a version range contains every
\* version, and one constructed with a lower bound only is limited by that
\* bound alone: what is above it is in the range.
C20_Unbounded ==
    output.done
    => /\ (Lower[1] = None /\ Upper[1] = None) => output.value
       /\ Len(input.version_range) = 1
          => output.value = check_min_version(input.version,
                                normalize_version_string(Lower[1]), Lower[2])

\* C20 witness: a requirement constructed with the lower bound 1.0.0 alone was
\* asked about 11.9.9 and contains it.
C20_Witness ==
    /\ output.done
    /\ input.version_range = <<<<Join(<<Str(1), Str(0), Str(0)>>), TRUE>>>>
    /\ input.version = Join(<<Str(11), Str(9), Str(9)>>)
    /\ output.value


\* ================================================= install order claims
\* (checked under SpecGraph)

\* The ids the node id depends on ({} when it is not registered).
DependsOn(graph, id) ==
    UNION {graph[i].dependsOn : i \in {j \in 1..Len(graph) : graph[j].id = id}}

\* The ids reached from a set of ids along dependency edges.
RECURSIVE Reach(_, _)
Reach(graph, ids) ==
    LET more == ids \cup UNION {DependsOn(graph, a) : a \in ids}
    IN IF more = ids THEN ids ELSE Reach(graph, more)

\* a depends on b, directly or through other plugins.
Needs(graph, a, b) == b \in Reach(graph, DependsOn(graph, a))

HasCycle(graph) == \E a \in Registered(graph) : Needs(graph, a, a)

\* Every edge points to a registered plugin.
Resolved(graph) == \A a \in Registered(graph) : DependsOn(graph, a) \subseteq Registered(graph)

\* Where an id was inserted, where it is in the order computed.
InsertedAt(id) == CHOOSE i \in 1..Len(input) : input[i].id = id
OrderedAt(id) == CHOOSE k \in 1..Len(output.order) : output.order[k] = id

\* The order holds every registered plugin exactly once, each after the
\* plugins it depends on.
TopologicalOrder ==
    /\ output.outcome = "ok"
    /\ Len(output.order) = Len(input)
    /\ {output.order[k] : k \in 1..Len(output.order)} = Registered(input)
    /\ \A a \in Registered(input) : \A b \in DependsOn(input, a) :
          OrderedAt(b) < OrderedAt(a)

\* C15: for registered plugins without a cycle or an unregistered dependency
\* the install order holds every plugin exactly once, every dependency before
\* its dependents, and any two plugins neither of which depends on the other
\* in the order they were inserted.
C15_InstallOrder ==
    (output.done /\ ~HasCycle(input) /\ Resolved(input))
    => /\ TopologicalOrder
       /\ \A a \in Registered(input), b \in Registered(input) :
            (~Needs(input, a, b) /\ ~Needs(input, b, a)
                /\ InsertedAt(a) < InsertedAt(b))
            => OrderedAt(a) < OrderedAt(b)

\* C15 amended: ... every plugin exactly once, every dependency before its
\* dependents, and insertion order breaks the ties: a plugin comes after one
\* inserted later only if it depends on a plugin that was not in the order
\* before the later one (that plugin itself or one placed after it).
C15_InstallOrderTieBreak ==
    (output.done /\ ~HasCycle(input) /\ Resolved(input))
    => /\ TopologicalOrder
       /\ \A a \in Registered(input), b \in Registered(input) :
            (InsertedAt(a) < InsertedAt(b) /\ OrderedAt(b) < OrderedAt(a))
            => \E d \in DependsOn(input, a) : OrderedAt(b) <= OrderedAt(d)

\* C15 witness: plugin 1 depends on plugin 3, inserted after the independent
\* plugin 2; the order is 2, 3, 1.
C15_Witness ==
    /\ output.done
    /\ input = <<[id |-> 1, dependsOn |-> {3}], [id |-> 2, dependsOn |-> {}],
                 [id |-> 3, dependsOn |-> {}]>>
    /\ output.order = <<2, 3, 1>>

\* C16: when the registered edges contain a cycle the computation of the
\* install order ends with the cycle error and hands out no order, not even
\* a partial one, so that the install pass has no plugin to install.
C16_CycleDetected ==
    (output.done /\ HasCycle(input))
    => /\ output.outcome = "CyclicDependencyError"
       /\ output.order = <<>>

\* C16 witness: plugin 1 depends on 2 and 2 on 1, a third plugin is free; the
\* computation has ended with the cycle error.
C16_Witness ==
    /\ output.done
    /\ input = <<[id |-> 3, dependsOn |-> {}], [id |-> 1, dependsOn |-> {2}],
                 [id |-> 2, dependsOn |-> {1}]>>
    /\ output.outcome = "CyclicDependencyError"


\* ============================================ further lifecycle claims
\* (checked under SpecContainer)

\* The edges of the lifecycle diagram, the first load() and the two failure
\* edges (failed install, failed activate).
LifecycleEdges ==
    {<<STATE_NONE, STATE_UNINSTALLED>>,
     <<STATE_UNINSTALLED, STATE_INSTALLED>>,
     <<STATE_INSTALLED, STATE_ACTIVE>>,
     <<STATE_ACTIVE, STATE_DEACTIVATED>>,
     <<STATE_DEACTIVATED, STATE_ACTIVE>>,
     <<STATE_INSTALLED, STATE_UNINSTALLED>>,
     <<STATE_DEACTIVATED, STATE_UNINSTALLED>>,
     <<STATE_UNINSTALLED, STATE_DISPOSED>>,
     <<STATE_INSTALLED, STATE_DEACTIVATED>>}

\* C23: whatever sequence of load, install, activate, deactivate, uninstall
\* and dispose is called on a plugin, every change of its state follows an
\* edge of the lifecycle diagram or a failure edge; an ACTIVE plugin is
\* DEACTIVATED before it is anything else, also when load() is called again.
C23_EdgesOnly ==
    [][container'.plugin_state # container.plugin_state
       => <<container.plugin_state, container'.plugin_state>> \in LifecycleEdges]_vars

\* The position of the first hook that raised in activate() during the last
\* call (0: none did).
RaisedAt ==
    LET at == {j \in 1..Len(last.calls) :
                  last.calls[j].method = "activate" /\ last.calls[j].raised}
    IN IF at = {} THEN 0
       ELSE last.calls[CHOOSE j \in at : \A l \in at : j <= l].hook

\* C25: activate() calls activate() on the hooks in the order of the list and
\* stops at the first that raises: when hook k raised, hooks 1..k have been
\* asked to activate, once each and in order, no hook after k has, no hook is
\* asked to deactivate, and the hooks before k are told of DEACTIVATED.
C25_StopsAtFirstRaiser ==
    (last.op = "activate" /\ RaisedAt # 0)
    => /\ \A i \in 1..Len(container.plugin_hooks) :
            Cardinality(CallsOn("activate", i)) = IF i <= RaisedAt THEN 1 ELSE 0
       /\ \A j \in 1..RaisedAt :
            last.calls[j].method = "activate" /\ last.calls[j].hook = j
       /\ \A j \in 1..Len(last.calls) : last.calls[j].method # "deactivate"
       /\ \A i \in 1..(RaisedAt - 1) :
            \E j \in CallsOn("on_state_change", i) :
                last.calls[j].arg = STATE_DEACTIVATED
       /\ container.plugin_state = STATE_DEACTIVATED

\* C25 witness: of at least three hooks the first activated and the second
\* raised; the plugin is DEACTIVATED.
C25_Witness ==
    /\ last.op = "activate"
    /\ Len(container.plugin_hooks) >= 3
    /\ RaisedAt = 2
    /\ ~last.calls[1].raised
    /\ container.plugin_state = STATE_DEACTIVATED

\* C26: a plugin that is INSTALLED, ACTIVE or DEACTIVATED has exactly one hook
\* per hook class of its manifest, in declaration order, however often it has
\* been installed.
C26_OneHookPerClass ==
    container.plugin_state \in Installed
    => container.plugin_hooks = PluginClasses(container.ref)


\* ====================================================== parser claims
\* (checked under SpecParser)

\* The lines of a descriptor that count: stripped, comment lines left out.
Counted(descriptor) ==
    SelectSeq([i \in 1..Len(descriptor) |-> Strip(descriptor[i])],
              LAMBDA l : l = <<>> \/ l[1] # "#")

\* A line is a block header: NAME ":" content.
HeaderAt(line) ==
    IF \E k \in 2..Len(line) : line[k] = ":" /\ \A l \in 1..(k - 1) : line[l] # ":"
    THEN CHOOSE k \in 2..Len(line) : line[k] = ":" /\ \A l \in 1..(k - 1) : line[l] # ":"
    ELSE 0

\* The blocks of a descriptor by its grammar: one per header line, its
\* content running on over the following lines up to the next header line or
\* the end of the descriptor.
RECURSIVE BlocksFrom(_, _)
BlocksFrom(lines, blocks) ==
    IF lines = <<>> THEN blocks
    ELSE LET l == Head(lines)
             k == HeaderAt(l)
             n == Len(blocks)
         IN BlocksFrom(Tail(lines),
              IF k # 0
              THEN Append(blocks, [block |-> Strip(SubSeq(l, 1, k - 1)),
                                   content |-> SubSeq(l, k + 1, Len(l))])
              ELSE IF n = 0 THEN blocks
              ELSE [blocks EXCEPT ![n].content = @ \o l])

BlocksOf(descriptor) == BlocksFrom(Counted(descriptor), <<>>)

\* The blocks of the descriptor that go to a property of the manifest.
BlocksFor(property) ==
    SelectSeq(BlocksOf(input), LAMBDA b : BLOCKS(upper(b.block)) = property)

\* The non-empty items of a content, separated by ";".
RECURSIVE ItemsOf(_)
ItemsOf(content) ==
    LET at == {k \in 1..Len(content) : content[k] = ";"}
        k == IF at = {} THEN Len(content) + 1 ELSE CHOOSE i \in at : \A j \in at : i <= j
        item == Strip(SubSeq(content, 1, k - 1))
        rest == IF at = {} THEN <<>> ELSE ItemsOf(SubSeq(content, k + 1, Len(content)))
    IN IF item = <<>> THEN rest ELSE <<item>> \o rest

\* The number of entries the block of a property declares (0: no block).
Declared(property) ==
    IF BlocksFor(property) = <<>> THEN 0
    ELSE Len(ItemsOf(BlocksFor(property)[1].content))

Properties == {"id", "version", "plugin_classes", "requires", "exports",
               "requires_plugins"}

\* C21: the manifest parsed from a descriptor (each block given at most once)
\* has the stripped contents of the PLUGIN-ID and VERSION blocks as its id and
\* version, and in its lists of hook classes, requires, exports and
\* requires-plugins one entry for every non-empty item of the block, the
\* continuation lines included.
C21_ManifestFromBlocks ==
    (output.done /\ \A pr \in Properties : Len(BlocksFor(pr)) <= 1)
    => /\ BlocksFor("id") # <<>>
          => output.builder.id = Strip(BlocksFor("id")[1].content)
       /\ BlocksFor("version") # <<>>
          => output.builder.version = Strip(BlocksFor("version")[1].content)
       /\ ~output.builder.plugin_classes.none
       /\ Len(output.builder.plugin_classes.items) = Declared("plugin_classes")
       /\ Len(output.builder.requires.items) = Declared("requires")
       /\ Len(output.builder.exports.items) = Declared("exports")
       /\ Len(output.builder.requires_plugins.items) = Declared("requires_plugins")

\* The descriptor without its unknown blocks.
WithoutUnknown ==
    LET known == SelectSeq(BlocksOf(input), LAMBDA b : BLOCKS(upper(b.block)) # "")
    IN [i \in 1..Len(known) |-> known[i].block \o <<":">> \o known[i].content]

\* C22: parsing a descriptor without a PLUGIN-ID block ends in a parse error,
\* not in a manifest; a block with an unknown name is no error, and the
\* manifest is the one the descriptor without that block gives.
C22_MissingIdUnknownBlock ==
    output.done
    => /\ BlocksFor("id") = <<>> => output.outcome # "ok"
       /\ BlocksFor("id") # <<>>
          => /\ output.outcome = "ok"
             /\ output.builder = parse(WithoutUnknown).builder

\* C24: every block header of the descriptor, the last one included, has led
\* to exactly one call of on_block, with the content of that block.
C24_EveryBlockDelivered ==
    output.done => output.calls = BlocksOf(input)

====
